---- MODULE Spec2Model ----
(***************************************************************************)
(* The step-wise Caesar decryption engine of src/script.js: CipherEngine   *)
(* (the per-character decode), LoopEngine (cursor, history, accumulated    *)
(* text, autoplay timer, think-mode gate) and the parts of UIController    *)
(* that LoopEngine reads (two toggles) or calls (showMissionComplete),     *)
(* and ClassSync: the save callback that showMissionComplete schedules,    *)
(* the attempts kept in localStorage and the CSV export.                   *)
(*                                                                         *)
(* Strings are sequences of one-character strings; array indices are the   *)
(* source's 0-based indices, so ALPHABET[i + 1] is CONFIG.ALPHABET[i].     *)
(***************************************************************************)
EXTENDS Integers, Sequences, FiniteSets, TLC

(***************************************************************************)
(* Bounds of the model.                                                    *)
(***************************************************************************)
\* live setInterval timers at one time
MaxTimers == 2
\* showMissionComplete calls counted within one run
MaxSignals == 2
\* |key| of the keys handed directly to CipherEngine
MaxKeyAbs == 40
\* how far below 0 and above 25 the key arguments of init reach
KeyMargin == 2
\* setTimeout callbacks of showMissionComplete pending at one time
MaxPending == 1
\* attempts kept in localStorage, all classes together
MaxAttempts == 3

(***************************************************************************)
(* Utility and CONFIG.                                                     *)
(***************************************************************************)
Min(a, b) == IF a <= b THEN a ELSE b

Max(a, b) == IF a >= b THEN a ELSE b

clamp(n, min, max) == Max(min, Min(max, n))

ALPHABET ==
    << "a", "b", "c", "d", "e", "f", "g", "h", "i", "j", "k", "l", "m",
       "n", "o", "p", "q", "r", "s", "t", "u", "v", "w", "x", "y", "z" >>

DEFAULT_KEY == 3

ALPHABET_SIZE == 26

\* The upper-case forms of the letters of ALPHABET, as String.prototype.toUpperCase
\* yields them and as the character class [A-Z] lists them.
UPPERCASE ==
    << "A", "B", "C", "D", "E", "F", "G", "H", "I", "J", "K", "L", "M",
       "N", "O", "P", "Q", "R", "S", "T", "U", "V", "W", "X", "Y", "Z" >>

\* U+212A KELVIN SIGN: not in [A-Z], and toLowerCase() maps it to "k".
KELVIN == "U+212A"

\* Characters that no case mapping touches.
OtherChars == {" ", "!", "1", "\"", ","}

Chars ==
    {ALPHABET[i] : i \in 1..26} \cup {UPPERCASE[i] : i \in 1..26}
        \cup {KELVIN} \cup OtherChars

(***************************************************************************)
(* JavaScript arithmetic and string helpers.                               *)
(***************************************************************************)
\* a % b of JavaScript for b > 0: the remainder takes the sign of the dividend.
JsRem(a, b) == IF a >= 0 THEN a % b ELSE -((-a) % b)

\* /[A-Z]/.test(letter) for a one-character string
isUpperAZ(letter) == \E i \in 1..26 : UPPERCASE[i] = letter

\* letter.toLowerCase()
toLowerCase(letter) ==
    IF isUpperAZ(letter)
    THEN ALPHABET[CHOOSE i \in 1..26 : UPPERCASE[i] = letter]
    ELSE IF letter = KELVIN THEN "k" ELSE letter

\* newChar.toUpperCase(), for a letter of ALPHABET
toUpperCase(letter) ==
    IF \E i \in 1..26 : ALPHABET[i] = letter
    THEN UPPERCASE[CHOOSE i \in 1..26 : ALPHABET[i] = letter]
    ELSE letter

\* CONFIG.ALPHABET.indexOf(c): 0-based, -1 when absent
indexOf(c) ==
    IF \E i \in 1..26 : ALPHABET[i] = c
    THEN (CHOOSE i \in 1..26 : ALPHABET[i] = c) - 1
    ELSE -1

\* CONFIG.ALPHABET[i]: undefined outside 0..25
undefined == "undefined"

alphabetAt(i) == IF i \in 0..25 THEN ALPHABET[i + 1] ELSE undefined

(***************************************************************************)
(* CipherEngine.                                                           *)
(***************************************************************************)
\* the slip the double remainder guards against: the remainder taken once,
\* which JavaScript leaves negative
calculateNewPosition_single(position, key) == JsRem(position - key, ALPHABET_SIZE)

\* the shift applied in the encrypting direction
calculateNewPosition_plus(position, key) ==
    JsRem(JsRem(position + key, ALPHABET_SIZE) + ALPHABET_SIZE, ALPHABET_SIZE)

\* the sign of a negative remainder dropped instead of wrapped around
calculateNewPosition_abs(position, key) ==
    LET r == JsRem(position - key, ALPHABET_SIZE) IN IF r < 0 THEN 0 - r ELSE r

calculateNewPosition(position, key) ==
    JsRem(JsRem(position - key, ALPHABET_SIZE) + ALPHABET_SIZE, ALPHABET_SIZE)

null == "null"

\* decryptChar looking the letter up as it is, without folding its case
decryptChar_noFold(letter, key, preserveCase) ==
    LET index == indexOf(letter)
    IN  IF index = -1
        THEN [isSpecial |-> TRUE, char |-> letter, originalIndex |-> -1,
              newIndex |-> -1, rawCalculation |-> null]
        ELSE [isSpecial |-> FALSE,
              char |-> alphabetAt(calculateNewPosition(index, key)),
              originalIndex |-> index,
              newIndex |-> calculateNewPosition(index, key),
              rawCalculation |-> index - key]

decryptChar(letter, key, preserveCase) ==
    LET isUpper == isUpperAZ(letter)
        lowerLetter == toLowerCase(letter)
        index == indexOf(lowerLetter)
    IN  IF index = -1
        THEN [isSpecial |-> TRUE, char |-> letter, originalIndex |-> -1,
              newIndex |-> -1, rawCalculation |-> null]
        ELSE LET rawCalc == index - key
                 newIndex == calculateNewPosition(index, key)
                 newChar == alphabetAt(newIndex)
             IN  [isSpecial |-> FALSE,
                  char |-> IF preserveCase /\ isUpper THEN toUpperCase(newChar) ELSE newChar,
                  originalIndex |-> index,
                  newIndex |-> newIndex,
                  rawCalculation |-> rawCalc]

(***************************************************************************)
(* Inputs the callers hand to LoopEngine.init.                             *)
(***************************************************************************)
KHOOR == << "k", "h", "o", "o", "r", " ", "z", "r", "u", "o", "g" >>

HELLO == << "h", "e", "l", "l", "o", " ", "w", "o", "r", "l", "d" >>

\* ciphertexts: empty, one letter, mixed case with a non-letter
Texts == { << >>, << "a" >>, << "K", "b", "!" >> }

\* A key argument is what parseInt(keyInput.value, 10) gave the caller: an
\* integer, or NaN.
Num(n) == [nan |-> FALSE, n |-> n]

NaN == [nan |-> TRUE, n |-> 0]

InitKeys == {Num(-1), Num(3)}

\* the inputs of the stepping runs (SpecSteps): the default mission text too,
\* and every key from below 0 to above 25
StepTexts == Texts \cup {KHOOR}

StepKeys == {Num(n) : n \in (0 - KeyMargin)..(25 + KeyMargin)} \cup {NaN}

(***************************************************************************)
(* State.                                                                  *)
(***************************************************************************)
VARIABLES
    \* LoopEngine.state
    encryptedText, key, currentIndex, history, isPlaying, timer,
    accumulatedText, waitingForReveal,
    \* the browser: the live setInterval timers, counted by the state object
    \* their callback closed over; the two toggles LoopEngine reads
    timers, thinkModeToggle, preserveCaseToggle,
    \* calls of UIController.showMissionComplete since the last init
    completions,
    \* observation: the last operation, the state it started from, the
    \* arguments of init (of the last call made, or of the call a stepping
    \* run is about to make), and whether autoplay was cancelled by pause,
    \* prevStep or init with no play since
    lastOp, pre, initArgs, cancelled,
    \* observation: how far a run is through "forward to the end, then back
    \* as many steps"
    script,
    \* the direct call of CipherEngine under check (SpecCipher)
    probe,
    \* the browser: the setTimeout callbacks showMissionComplete has scheduled
    \* and that have not run yet (a count: they close over nothing), and
    \* window.localStorage
    pendingSaves, localStorage,
    \* observation: the runs that scheduled the pending callbacks, oldest
    \* first, and the last call of ClassSync with its outcome
    signalled, sync,
    \* observation: the cursor, history and accumulated text that the last
    \* nextStep or prevStep of the learner started from
    undo,
    \* LoopEngine.state of the second implementation (src/unnamed/part_000),
    \* run through the same operations, with its live timers, its calls of
    \* showMissionComplete since the last init and the outcome of its last save
    part

stateVars ==
    << encryptedText, key, currentIndex, history, isPlaying, timer,
       accumulatedText, waitingForReveal >>

dataVars == << currentIndex, history, accumulatedText >>

toggleVars == << thinkModeToggle, preserveCaseToggle >>

vars ==
    << stateVars, timers, toggleVars, completions,
       lastOp, pre, initArgs, cancelled, script, probe,
       pendingSaves, localStorage, signalled, sync, undo, part >>

\* no call of ClassSync made by the last operation; alerts counts the
\* alert dialogs the call put up, outcome "warned" is the console.warn of
\* saveAttempt's catch block
NoSync ==
    [call |-> "none", classId |-> "", outcome |-> "none", data |-> << >>,
     alerts |-> 0]

\* the state object literal of LoopEngine, and the page before any input
Constructed ==
    /\ encryptedText = << >>
    /\ key = DEFAULT_KEY
    /\ currentIndex = -1
    /\ history = << >>
    /\ isPlaying = FALSE
    /\ timer = 0
    /\ accumulatedText = << >>
    /\ waitingForReveal = FALSE
    /\ timers = [live |-> 0, staleWaiting |-> 0, staleIdle |-> 0]
    /\ thinkModeToggle \in BOOLEAN
    /\ preserveCaseToggle \in BOOLEAN
    /\ completions = 0
    /\ lastOp = "none"
    /\ pre = [currentIndex |-> -1, isPlaying |-> FALSE, waitingForReveal |-> FALSE]
    /\ cancelled = FALSE
    /\ pendingSaves = 0
    /\ sync = NoSync

\* no second call made on the result of the first
NoBack == [called |-> FALSE, key |-> 0, result |-> decryptChar("a", 0, TRUE)]

Unprobed ==
    probe = [letter |-> "a", key |-> 0, preserveCase |-> TRUE, called |-> FALSE,
             result |-> decryptChar("a", 0, TRUE), back |-> NoBack]

\* init not called yet
NoArgs == [text |-> << >>, key |-> NaN, called |-> FALSE]

\* JSON.stringify and JSON.parse of an array of attempts (see ClassSync below)
JSONstringify(data) == [json |-> data]

JSONparse(text) == text.json

\* a localStorage holding no item
NoItems == [k \in {} |-> JSONstringify(<< >>)]

\* localStorage out of reach (storage disabled for the page)
NoStorage == localStorage = [available |-> FALSE, items |-> NoItems]

\* the pending callbacks not told apart by the run that scheduled them
Unsignalled == signalled = [on |-> FALSE, runs |-> << >>]

\* no step of the learner to look back at
NoStep == [op |-> "none", after |-> "none", currentIndex |-> -1,
           history |-> << >>, accumulatedText |-> << >>]

\* the steps of the learner not looked back at
Unmarked == undo = [on |-> FALSE, last |-> NoStep]

\* the state object literal of the second implementation, no timer set, no
\* completion shown; on says whether the second implementation is run along
NoPart ==
    [on |-> FALSE, encryptedText |-> << >>, key |-> 3, currentIndex |-> -1,
     history |-> << >>, isPlaying |-> FALSE, timer |-> 0,
     accumulatedText |-> << >>,
     timerLive |-> FALSE, intervals |-> 0, completions |-> 0, save |-> "none"]

\* the second implementation not run along
Unpaired == part = NoPart

Init ==
    /\ Constructed
    /\ NoStorage
    /\ Unsignalled
    /\ Unmarked
    /\ Unpaired
    /\ initArgs = NoArgs
    /\ script = [phase |-> "off", steps |-> 0]
    /\ Unprobed

(***************************************************************************)
(* Timers.  setInterval handles are opaque, so the live timers are kept as *)
(* counts per closure: timers.live counts the timers whose callback closed *)
(* over the current LoopEngine.state (the one whose handle state.timer     *)
(* holds, when timer # 0, and those whose handle play has overwritten);    *)
(* timers.staleWaiting and timers.staleIdle count the timers whose         *)
(* callback closed over a state object that init has since replaced, with  *)
(* waitingForReveal left TRUE, or FALSE: every method writes               *)
(* LoopEngine.state only, so a replaced object keeps its fields.           *)
(* timer is 0 for null and 1 for the handle of a live timer.               *)
(***************************************************************************)
Closures == {"live", "staleWaiting", "staleIdle"}

liveTimers == timers.live + timers.staleWaiting + timers.staleIdle

\* if (s.timer) clearInterval(s.timer): the timers left
clearInterval(handle) ==
    IF handle # 0 THEN [timers EXCEPT !.live = @ - 1] ELSE timers

\* setInterval(callback, speed), the callback closing over the current state
setInterval(ts) == [ts EXCEPT !.live = @ + 1]

\* the timers as seen once init has replaced LoopEngine.state
Detach(ts) ==
    [live |-> 0,
     staleWaiting |-> ts.staleWaiting + (IF waitingForReveal THEN ts.live ELSE 0),
     staleIdle |-> ts.staleIdle + (IF waitingForReveal THEN 0 ELSE ts.live)]

\* s.waitingForReveal as a callback with closure c reads it
closureWaiting(c) ==
    IF c = "live" THEN waitingForReveal ELSE c = "staleWaiting"

(***************************************************************************)
(* LoopEngine.                                                             *)
(***************************************************************************)
pause ==
    /\ isPlaying' = FALSE
    /\ timers' = clearInterval(timer)
    /\ timer' = 0

\* UIController.showMissionComplete: the generated program is display only;
\* the save is left to a timeout
showMissionComplete ==
    /\ completions < MaxSignals
    /\ completions' = completions + 1
    /\ pendingSaves < MaxPending
    /\ pendingSaves' = pendingSaves + 1

\* parseInt(key, 10) || CONFIG.DEFAULT_KEY
keyOrDefault(k) == IF k.nan \/ k.n = 0 THEN DEFAULT_KEY ELSE k.n

\* init as a patch of the old state object: the snapshots and the text of the
\* previous run are left in place
init_patch(text, k) ==
    /\ encryptedText' = text
    /\ key' = clamp(keyOrDefault(k), 0, 25)
    /\ currentIndex' = -1
    /\ isPlaying' = FALSE
    /\ timer' = 0
    /\ waitingForReveal' = FALSE
    /\ timers' = clearInterval(timer)
    /\ completions' = 0
    /\ UNCHANGED pendingSaves
    /\ UNCHANGED << history, accumulatedText >>

init(text, k) ==
    /\ encryptedText' = text
    /\ key' = clamp(keyOrDefault(k), 0, 25)
    /\ currentIndex' = -1
    /\ history' = << >>
    /\ isPlaying' = FALSE
    /\ timer' = 0
    /\ accumulatedText' = << >>
    /\ waitingForReveal' = FALSE
    /\ timers' = Detach(clearInterval(timer))
    /\ completions' = 0
    /\ UNCHANGED pendingSaves

\* nextStep signalling completion only once a character has been decoded
nextStep_afterStep ==
    IF currentIndex >= Len(encryptedText) - 1
    THEN /\ pause
         /\ IF currentIndex = Len(encryptedText) - 1 /\ currentIndex >= 0
            THEN showMissionComplete
            ELSE UNCHANGED << completions, pendingSaves >>
         /\ UNCHANGED << encryptedText, key, dataVars, waitingForReveal >>
    ELSE LET i == currentIndex + 1
             char == encryptedText[i + 1]
             result == decryptChar(char, key, preserveCaseToggle)
             accumulated == Append(accumulatedText, result.char)
             snapshot == [iteration |-> i, inputChar |-> char, key |-> key,
                          result |-> result, accumulated |-> accumulated]
         IN  /\ currentIndex' = i
             /\ accumulatedText' = accumulated
             /\ history' = Append(history, snapshot)
             /\ waitingForReveal' = thinkModeToggle
             /\ IF thinkModeToggle /\ isPlaying
                THEN pause
                ELSE UNCHANGED << isPlaying, timer, timers >>
             /\ UNCHANGED << encryptedText, key, completions, pendingSaves >>

\* nextStep adding nothing to the accumulated text for a special character
nextStep_skipSpecial ==
    IF currentIndex >= Len(encryptedText) - 1
    THEN /\ pause
         /\ IF currentIndex = Len(encryptedText) - 1
            THEN showMissionComplete
            ELSE UNCHANGED << completions, pendingSaves >>
         /\ UNCHANGED << encryptedText, key, dataVars, waitingForReveal >>
    ELSE LET i == currentIndex + 1
             char == encryptedText[i + 1]
             result == decryptChar(char, key, preserveCaseToggle)
             accumulated == IF result.isSpecial THEN accumulatedText
                            ELSE Append(accumulatedText, result.char)
             snapshot == [iteration |-> i, inputChar |-> char, key |-> key,
                          result |-> result, accumulated |-> accumulated]
         IN  /\ currentIndex' = i
             /\ accumulatedText' = accumulated
             /\ history' = Append(history, snapshot)
             /\ waitingForReveal' = thinkModeToggle
             /\ IF thinkModeToggle /\ isPlaying
                THEN pause
                ELSE UNCHANGED << isPlaying, timer, timers >>
             /\ UNCHANGED << encryptedText, key, completions, pendingSaves >>

\* nextStep taking the snapshot before the decoded character is added to
\* the accumulated text
nextStep_staleSnapshot ==
    IF currentIndex >= Len(encryptedText) - 1
    THEN /\ pause
         /\ IF currentIndex = Len(encryptedText) - 1
            THEN showMissionComplete
            ELSE UNCHANGED << completions, pendingSaves >>
         /\ UNCHANGED << encryptedText, key, dataVars, waitingForReveal >>
    ELSE LET i == currentIndex + 1
             char == encryptedText[i + 1]
             result == decryptChar(char, key, preserveCaseToggle)
             accumulated == Append(accumulatedText, result.char)
             snapshot == [iteration |-> i, inputChar |-> char, key |-> key,
                          result |-> result, accumulated |-> accumulatedText]
         IN  /\ currentIndex' = i
             /\ accumulatedText' = accumulated
             /\ history' = Append(history, snapshot)
             /\ waitingForReveal' = thinkModeToggle
             /\ IF thinkModeToggle /\ isPlaying
                THEN pause
                ELSE UNCHANGED << isPlaying, timer, timers >>
             /\ UNCHANGED << encryptedText, key, completions, pendingSaves >>

nextStep ==
    IF currentIndex >= Len(encryptedText) - 1
    THEN /\ pause
         /\ IF currentIndex = Len(encryptedText) - 1
            THEN showMissionComplete
            ELSE UNCHANGED << completions, pendingSaves >>
         /\ UNCHANGED << encryptedText, key, dataVars, waitingForReveal >>
    ELSE LET i == currentIndex + 1
             char == encryptedText[i + 1]
             result == decryptChar(char, key, preserveCaseToggle)
             accumulated == Append(accumulatedText, result.char)
             snapshot == [iteration |-> i, inputChar |-> char, key |-> key,
                          result |-> result, accumulated |-> accumulated]
         IN  /\ currentIndex' = i
             /\ accumulatedText' = accumulated
             /\ history' = Append(history, snapshot)
             /\ waitingForReveal' = thinkModeToggle
             /\ IF thinkModeToggle /\ isPlaying
                THEN pause
                ELSE UNCHANGED << isPlaying, timer, timers >>
             /\ UNCHANGED << encryptedText, key, completions, pendingSaves >>

\* prevStep that moves the cursor back and leaves the snapshot on the stack
prevStep_noPop ==
    /\ pause
    /\ IF currentIndex < 0
       THEN UNCHANGED << dataVars, waitingForReveal >>
       ELSE /\ currentIndex' = currentIndex - 1
            /\ accumulatedText' =
                   IF Len(history) > 0 THEN history[Len(history)].accumulated ELSE << >>
            /\ waitingForReveal' = FALSE
            /\ UNCHANGED history
    /\ UNCHANGED << encryptedText, key, completions, pendingSaves >>

\* prevStep without the early return at currentIndex < 0
prevStep_noGuard ==
    /\ pause
    /\ LET popped == SubSeq(history, 1, Len(history) - 1)
       IN  /\ history' = popped
           /\ currentIndex' = currentIndex - 1
           /\ accumulatedText' =
                  IF Len(popped) > 0 THEN popped[Len(popped)].accumulated ELSE << >>
           /\ waitingForReveal' = FALSE
    /\ UNCHANGED << encryptedText, key, completions, pendingSaves >>

\* prevStep without the else branch that empties the accumulated text
prevStep_keepText ==
    /\ pause
    /\ IF currentIndex < 0
       THEN UNCHANGED << dataVars, waitingForReveal >>
       ELSE LET popped == SubSeq(history, 1, Len(history) - 1)
            IN  /\ history' = popped
                /\ currentIndex' = currentIndex - 1
                /\ accumulatedText' =
                       IF Len(popped) > 0 THEN popped[Len(popped)].accumulated
                       ELSE accumulatedText
                /\ waitingForReveal' = FALSE
    /\ UNCHANGED << encryptedText, key, completions, pendingSaves >>

\* prevStep returning at currentIndex < 0 before it pauses
prevStep_guardFirst ==
    IF currentIndex < 0
    THEN UNCHANGED << stateVars, timers, completions, pendingSaves >>
    ELSE /\ pause
         /\ LET popped == SubSeq(history, 1, Len(history) - 1)
            IN  /\ history' = popped
                /\ currentIndex' = currentIndex - 1
                /\ accumulatedText' =
                       IF Len(popped) > 0 THEN popped[Len(popped)].accumulated ELSE << >>
                /\ waitingForReveal' = FALSE
         /\ UNCHANGED << encryptedText, key, completions, pendingSaves >>

prevStep ==
    /\ pause
    /\ IF currentIndex < 0
       THEN UNCHANGED << dataVars, waitingForReveal >>
       ELSE LET popped == SubSeq(history, 1, Len(history) - 1)
            IN  /\ history' = popped
                /\ currentIndex' = currentIndex - 1
                /\ accumulatedText' =
                       IF Len(popped) > 0 THEN popped[Len(popped)].accumulated ELSE << >>
                /\ waitingForReveal' = FALSE
    /\ UNCHANGED << encryptedText, key, completions, pendingSaves >>

\* play without the early return at the end of the text
play_noGuard ==
    /\ liveTimers < MaxTimers
    /\ isPlaying' = TRUE
    /\ timers' = setInterval(timers)
    /\ timer' = 1
    /\ UNCHANGED << encryptedText, key, dataVars, waitingForReveal, completions, pendingSaves >>

play ==
    IF currentIndex >= Len(encryptedText) - 1
    THEN UNCHANGED << stateVars, timers, completions, pendingSaves >>
    ELSE /\ liveTimers < MaxTimers
         /\ isPlaying' = TRUE
         /\ timers' = setInterval(timers)
         /\ timer' = 1
         /\ UNCHANGED << encryptedText, key, dataVars, waitingForReveal, completions, pendingSaves >>

\* revealPrediction taking the revealed snapshot off the history
revealPrediction_pop ==
    /\ waitingForReveal' = FALSE
    /\ history' = SubSeq(history, 1, Len(history) - 1)
    /\ UNCHANGED << encryptedText, key, currentIndex, accumulatedText, isPlaying,
                    timer, timers, completions, pendingSaves >>

revealPrediction ==
    /\ waitingForReveal' = FALSE
    /\ UNCHANGED << encryptedText, key, dataVars, isPlaying, timer, timers, completions, pendingSaves >>

\* skipPrediction that pauses autoplay as well
skipPrediction_pause ==
    /\ waitingForReveal' = FALSE
    /\ pause
    /\ UNCHANGED << encryptedText, key, dataVars, completions, pendingSaves >>

skipPrediction ==
    /\ waitingForReveal' = FALSE
    /\ UNCHANGED << encryptedText, key, dataVars, isPlaying, timer, timers, completions, pendingSaves >>

\* the callback play hands to setInterval, run with closure c
timerCallback(c) ==
    IF closureWaiting(c)
    THEN /\ pause
         /\ UNCHANGED << encryptedText, key, dataVars, waitingForReveal, completions, pendingSaves >>
    ELSE nextStep

(***************************************************************************)
(* The second implementation, src/unnamed/part_000: CipherEngine and       *)
(* LoopEngine as that file writes them, as functions of its state p.       *)
(* p.timer is 0 for null and 1 for a handle; pause leaves the handle in    *)
(* state.timer, so p.timerLive says whether the timer behind the handle is *)
(* still live.  Every timer of this file runs LoopEngine.nextStep on the   *)
(* current state, so p.intervals counts the live ones.  The attempts       *)
(* showMissionComplete stores are not kept, only the outcome of the save.  *)
(***************************************************************************)
part_calculateNewPosition(position, k) ==
    JsRem(JsRem(position - k, ALPHABET_SIZE) + ALPHABET_SIZE, ALPHABET_SIZE)

part_decryptChar(letter, k) ==
    LET isUpper == letter = toUpperCase(letter) /\ isUpperAZ(letter)
        lowerLetter == toLowerCase(letter)
        index == indexOf(lowerLetter)
    IN  IF index = -1
        THEN [isSpecial |-> TRUE, char |-> letter, originalIndex |-> -1,
              newIndex |-> -1, rawCalculation |-> null]
        ELSE LET rawCalc == index - k
                 newIndex == part_calculateNewPosition(index, k)
                 newChar == alphabetAt(newIndex)
             IN  [isSpecial |-> FALSE,
                  char |-> IF isUpper THEN toUpperCase(newChar) ELSE newChar,
                  originalIndex |-> index,
                  newIndex |-> newIndex,
                  rawCalculation |-> rawCalc]

part_pause(p) ==
    [p EXCEPT !.isPlaying = FALSE,
              !.intervals = IF p.timer # 0 /\ p.timerLive THEN @ - 1 ELSE @,
              !.timerLive = FALSE]

\* the key is stored as init receives it, here a number
part_init(p, text, k) ==
    [part_pause(p) EXCEPT !.encryptedText = text,
                          !.key = k.n,
                          !.currentIndex = -1,
                          !.history = << >>,
                          !.isPlaying = FALSE,
                          !.timer = 0,
                          !.accumulatedText = << >>,
                          !.completions = 0,
                          !.save = "none"]

\* UIController.showMissionComplete of part_000: ClassSync.saveAttempt is
\* called at once and catches what localStorage throws
part_showMissionComplete(p) ==
    [p EXCEPT !.completions = @ + 1,
              !.save = IF localStorage.available THEN "saved" ELSE "failed"]

part_nextStep(p) ==
    IF p.currentIndex >= Len(p.encryptedText) - 1
    THEN IF p.currentIndex = Len(p.encryptedText) - 1
         THEN part_showMissionComplete(part_pause(p))
         ELSE part_pause(p)
    ELSE LET i == p.currentIndex + 1
             char == p.encryptedText[i + 1]
             result == part_decryptChar(char, p.key)
             accumulated == Append(p.accumulatedText, result.char)
             snapshot == [iteration |-> i, inputChar |-> char, key |-> p.key,
                          result |-> result, accumulated |-> accumulated]
             s == [p EXCEPT !.currentIndex = i,
                            !.accumulatedText = accumulated,
                            !.history = Append(p.history, snapshot)]
         IN  IF thinkModeToggle /\ s.isPlaying THEN part_pause(s) ELSE s

part_prevStep(p) ==
    LET s == part_pause(p)
    IN  IF s.currentIndex < 0 THEN s
        ELSE LET popped == SubSeq(s.history, 1, Len(s.history) - 1)
             IN  [s EXCEPT !.history = popped,
                           !.currentIndex = @ - 1,
                           !.accumulatedText =
                               IF Len(popped) > 0
                               THEN popped[Len(popped)].accumulated
                               ELSE << >>]

part_play(p) ==
    IF p.currentIndex >= Len(p.encryptedText) - 1 THEN p
    ELSE [p EXCEPT !.isPlaying = TRUE,
                   !.timer = 1,
                   !.timerLive = TRUE,
                   !.intervals = @ + 1]

(***************************************************************************)
(* Observation of a run.                                                   *)
(***************************************************************************)
broken == [phase |-> "broken", steps |-> 0]

\* The script "init, stepForward until the cursor is at the last index, then
\* stepBackward as many times", followed through operation op: "forward" and
\* "backward" count the steps made and still owed; toggles do not interrupt
\* it, nor do the save callback and the export, any other operation does,
\* and "off" stays off.
Track(op) ==
    IF script.phase = "off" THEN script
    ELSE IF op = "init" THEN [phase |-> "forward", steps |-> 0]
    ELSE IF op \in {"toggle", "save", "export"} THEN script
    ELSE IF script.phase = "forward" /\ op = "nextStep"
            /\ currentIndex < Len(encryptedText) - 1
    THEN [phase |-> "forward", steps |-> script.steps + 1]
    ELSE IF script.phase = "forward" /\ op = "prevStep" /\ script.steps > 0
            /\ currentIndex = Len(encryptedText) - 1
    THEN [phase |-> "backward", steps |-> script.steps - 1]
    ELSE IF script.phase = "backward" /\ op = "prevStep" /\ script.steps > 0
    THEN [phase |-> "backward", steps |-> script.steps - 1]
    ELSE broken

\* The runs whose completion scheduled the pending save callbacks, oldest
\* first, followed through operation op: the callbacks run in the order
\* they were scheduled (equal delays).  Not kept when signalled.on is false.
TrackSignals(op) ==
    IF ~signalled.on THEN signalled
    ELSE IF op = "save" THEN [signalled EXCEPT !.runs = Tail(@)]
    ELSE IF pendingSaves' = pendingSaves + 1
    THEN [signalled EXCEPT !.runs = Append(@, [text |-> encryptedText, key |-> key])]
    ELSE signalled

\* The data that the last nextStep or prevStep called by a listener
\* started from, and the operation it came after, followed through
\* operation op: a toggle leaves it, any other operation forgets it.  Not
\* kept when undo.on is false.
TrackUndo(op) ==
    IF ~undo.on THEN undo
    ELSE IF op \in {"nextStep", "prevStep"}
    THEN [undo EXCEPT !.last = [op |-> op, after |-> lastOp,
                                currentIndex |-> currentIndex,
                                history |-> history,
                                accumulatedText |-> accumulatedText]]
    ELSE IF op = "toggle" THEN undo
    ELSE [undo EXCEPT !.last = NoStep]

\* The second implementation run through operation op, with the arguments
\* the first one was given: a tick runs its nextStep when it has a live
\* timer to fire; the acknowledgements, the toggles, the deferred save and
\* the export of the first page call nothing of its LoopEngine.  Not kept
\* when part.on is false.
TrackPart(op) ==
    IF ~part.on THEN part
    ELSE IF op = "init" THEN part_init(part, initArgs'.text, initArgs'.key)
    ELSE IF op = "nextStep" THEN part_nextStep(part)
    ELSE IF op = "prevStep" THEN part_prevStep(part)
    ELSE IF op = "play" THEN part_play(part)
    ELSE IF op = "pause" THEN part_pause(part)
    ELSE IF op = "tick" /\ part.intervals > 0 THEN part_nextStep(part)
    ELSE part

Observe(op) ==
    /\ lastOp' = op
    /\ pre' = [currentIndex |-> currentIndex, isPlaying |-> isPlaying,
               waitingForReveal |-> waitingForReveal]
    /\ script' = Track(op)
    /\ signalled' = TrackSignals(op)
    /\ undo' = TrackUndo(op)
    /\ part' = TrackPart(op)
    /\ UNCHANGED probe

\* the operation calls nothing of ClassSync
NoSyncCall ==
    /\ sync' = NoSync
    /\ UNCHANGED localStorage

(***************************************************************************)
(* ClassSync.  A string the page writes out is a sequence of pieces: the   *)
(* characters of a text one by one, and, kept whole, the pieces that hold  *)
(* neither a double quote nor a comma nor a line break (a property name, a *)
(* number, a timestamp, a student id).                                     *)
(*                                                                         *)
(* An item of localStorage is the JSON text JSON.stringify made of an      *)
(* array of attempts; it is kept as the array it denotes.  The attempts    *)
(* hold strings, finite numbers, booleans, null, arrays and plain objects  *)
(* only, which JSON.parse gives back as JSON.stringify found them.         *)
(***************************************************************************)
\* what the learner may have typed into classIdInput and studentIdInput
ClassIds == {"", "default", "7b"}

StudentIds == {"", "ann"}

\* new Date().toISOString()
Timestamps == {"2026-01-01T08:00:00.000Z"}

storageKey(classId) == "spyclass_" \o (IF classId = "" THEN "default" ELSE classId)

\* JSON.parse(localStorage.getItem(key) || '[]')
storedAttempts(k) ==
    IF k \in DOMAIN localStorage.items
    THEN JSONparse(localStorage.items[k])
    ELSE << >>

\* localStorage.setItem(key, text): the storage after it
setItem(k, text) ==
    [localStorage EXCEPT !.items =
        [x \in DOMAIN localStorage.items \cup {k} |->
            IF x = k THEN text ELSE localStorage.items[x]]]

RECURSIVE CountAttempts(_)
CountAttempts(keys) ==
    IF keys = {} THEN 0
    ELSE LET k == CHOOSE x \in keys : TRUE
         IN  Len(JSONparse(localStorage.items[k])) + CountAttempts(keys \ {k})

\* the attempts localStorage holds, all classes together
totalAttempts == CountAttempts(DOMAIN localStorage.items)

\* the object saveAttempt pushes
attemptEntry(studentId, now) ==
    [timestamp |-> now,
     studentId |-> IF studentId = "" THEN "unknown" ELSE studentId,
     encrypted |-> encryptedText,
     key |-> key,
     finalDecrypted |-> accumulatedText,
     history |-> history]

\* saveAttempt storing the new entry alone, the entries read dropped
saveAttempt_overwrite(classId, studentId, now) ==
    IF ~localStorage.available
    THEN /\ UNCHANGED localStorage
         /\ sync' = [NoSync EXCEPT !.call = "saveAttempt", !.outcome = "warned"]
    ELSE LET k == storageKey(classId)
         IN  /\ totalAttempts < MaxAttempts
             /\ localStorage' =
                    setItem(k, JSONstringify(<< attemptEntry(studentId, now) >>))
             /\ sync' = [NoSync EXCEPT !.call = "saveAttempt", !.classId = classId,
                                       !.outcome = "saved"]

\* ClassSync.saveAttempt(classId, studentId), called at time now: with the
\* storage out of reach localStorage.getItem throws and the catch block
\* logs a warning to the console
saveAttempt(classId, studentId, now) ==
    IF ~localStorage.available
    THEN /\ UNCHANGED localStorage
         /\ sync' = [NoSync EXCEPT !.call = "saveAttempt", !.outcome = "warned"]
    ELSE LET k == storageKey(classId)
             data == storedAttempts(k)
         IN  /\ totalAttempts < MaxAttempts
             /\ localStorage' =
                    setItem(k, JSONstringify(Append(data, attemptEntry(studentId, now))))
             /\ sync' = [NoSync EXCEPT !.call = "saveAttempt", !.classId = classId,
                                       !.outcome = "saved"]

\* the double quote
Q == "\""

RECURSIVE joinRange(_, _, _, _)
\* parts[lo], sep, ..., sep, parts[hi] in one string (by halves)
joinRange(parts, sep, lo, hi) ==
    IF lo > hi THEN << >>
    ELSE IF lo = hi THEN parts[lo]
    ELSE LET mid == (lo + hi) \div 2
         IN  joinRange(parts, sep, lo, mid) \o sep \o joinRange(parts, sep, mid + 1, hi)

\* Array.prototype.join for an array of strings
join(parts, sep) == joinRange(parts, << sep >>, 1, Len(parts))

\* the strings of parts one after the other
concat(parts) == joinRange(parts, << >>, 1, Len(parts))

\* str.replace(/"/g, '""')
replaceQuotes(str) ==
    concat([i \in 1..Len(str) |-> IF str[i] = Q THEN << Q, Q >> ELSE << str[i] >>])

\* JSON.stringify of a string: quoted, with " and \ escaped
stringifyString(str) ==
    << Q >>
    \o concat([i \in 1..Len(str) |->
                  IF str[i] = Q THEN << "\\", Q >>
                  ELSE IF str[i] = "\\" THEN << "\\", "\\" >>
                  ELSE << str[i] >>])
    \o << Q >>

stringifyMember(name, value) == << Q, name, Q, ":" >> \o value

stringifyObject(members) == << "{" >> \o join(members, ",") \o << "}" >>

\* JSON.stringify of the object decryptChar returns
stringifyResult(r) ==
    stringifyObject(<<
        stringifyMember("isSpecial", << IF r.isSpecial THEN "true" ELSE "false" >>),
        stringifyMember("char", stringifyString(<< r.char >>)),
        stringifyMember("originalIndex", << ToString(r.originalIndex) >>),
        stringifyMember("newIndex", << ToString(r.newIndex) >>),
        stringifyMember("rawCalculation",
                        << IF r.isSpecial THEN null ELSE ToString(r.rawCalculation) >>) >>)

\* JSON.stringify of a snapshot of nextStep
stringifySnapshot(h) ==
    stringifyObject(<<
        stringifyMember("iteration", << ToString(h.iteration) >>),
        stringifyMember("inputChar", stringifyString(<< h.inputChar >>)),
        stringifyMember("key", << ToString(h.key) >>),
        stringifyMember("result", stringifyResult(h.result)),
        stringifyMember("accumulated", stringifyString(h.accumulated)) >>)

\* JSON.stringify(r.history), written out
stringifyHistory(h) ==
    << "[" >> \o join([i \in 1..Len(h) |-> stringifySnapshot(h[i])], ",") \o << "]" >>

csvHeader ==
    << << "timestamp" >>, << "studentId" >>, << "encrypted" >>, << "key" >>,
       << "finalDecrypted" >>, << "historyJSON" >> >>

\* the array exportClassCSV pushes for attempt r
csvRow(r) ==
    << << r.timestamp >>,
       << r.studentId >>,
       << Q >> \o r.encrypted \o << Q >>,
       << ToString(r.key) >>,
       << Q >> \o r.finalDecrypted \o << Q >>,
       << Q >> \o replaceQuotes(stringifyHistory(r.history)) \o << Q >> >>

\* the rows exportClassCSV builds from the attempts in data
csvRows(data) == << csvHeader >> \o [i \in 1..Len(data) |-> csvRow(data[i])]

\* rows.map(r => r.join(',')).join('\n')
csvText(data) ==
    LET rows == csvRows(data)
    IN  join([i \in 1..Len(rows) |-> join(rows[i], ",")], "\n")

\* exportClassCSV with the early return on an empty log left out
exportClassCSV_headerOnly(classId) ==
    IF ~localStorage.available
    THEN sync' = [NoSync EXCEPT !.call = "exportClassCSV", !.classId = classId,
                                !.outcome = "threw"]
    ELSE LET data == storedAttempts(storageKey(classId))
         IN  sync' = [NoSync EXCEPT !.call = "exportClassCSV", !.classId = classId,
                                      !.outcome = "csv", !.data = data]

\* ClassSync.exportClassCSV(classId): with the storage out of reach
\* localStorage.getItem throws and nothing catches it; with no attempt found
\* an alert and no download; else the download of a file made of
\* csvText(data), with data the attempts read
exportClassCSV(classId) ==
    IF ~localStorage.available
    THEN sync' = [NoSync EXCEPT !.call = "exportClassCSV", !.classId = classId,
                                !.outcome = "threw"]
    ELSE LET data == storedAttempts(storageKey(classId))
         IN  IF Len(data) = 0
             THEN sync' = [NoSync EXCEPT !.call = "exportClassCSV",
                                         !.classId = classId,
                                         !.outcome = "alert", !.alerts = 1]
             ELSE sync' = [NoSync EXCEPT !.call = "exportClassCSV",
                                         !.classId = classId,
                                         !.outcome = "csv", !.data = data]

\* the text of the file the last operation made the browser download
downloaded == IF sync.outcome = "csv" THEN csvText(sync.data) ELSE << >>

(***************************************************************************)
(* The operations as the page and the timers invoke them.                  *)
(***************************************************************************)
\* the start listener, with text and k read from the two inputs
StartWith(text, k) ==
    /\ init(text, k)
    /\ initArgs' = [text |-> text, key |-> k, called |-> TRUE]
    /\ Observe("init")
    /\ NoSyncCall
    /\ cancelled' = TRUE
    /\ UNCHANGED toggleVars

StartMission == \E text \in Texts, k \in InitKeys : StartWith(text, k)

Reset ==
    /\ init(encryptedText, Num(key))
    /\ initArgs' = [text |-> encryptedText, key |-> Num(key), called |-> TRUE]
    /\ Observe("init")
    /\ NoSyncCall
    /\ cancelled' = TRUE
    /\ UNCHANGED toggleVars

StepForward ==
    /\ nextStep
    /\ Observe("nextStep")
    /\ NoSyncCall
    /\ UNCHANGED << toggleVars, initArgs, cancelled >>

StepBack ==
    /\ prevStep
    /\ Observe("prevStep")
    /\ NoSyncCall
    /\ cancelled' = TRUE
    /\ UNCHANGED << toggleVars, initArgs >>

Play ==
    /\ play
    /\ Observe("play")
    /\ NoSyncCall
    /\ cancelled' = FALSE
    /\ UNCHANGED << toggleVars, initArgs >>

Pause ==
    /\ pause
    /\ UNCHANGED << encryptedText, key, dataVars, waitingForReveal, completions, pendingSaves >>
    /\ Observe("pause")
    /\ NoSyncCall
    /\ cancelled' = TRUE
    /\ UNCHANGED << toggleVars, initArgs >>

Reveal ==
    /\ revealPrediction
    /\ Observe("acknowledge")
    /\ NoSyncCall
    /\ UNCHANGED << toggleVars, initArgs, cancelled >>

SkipPredict ==
    /\ skipPrediction
    /\ Observe("acknowledge")
    /\ NoSyncCall
    /\ UNCHANGED << toggleVars, initArgs, cancelled >>

\* a live timer whose callback has closure c fires
TickOf(c) ==
    /\ timers[c] > 0
    /\ timerCallback(c)
    /\ Observe("tick")
    /\ NoSyncCall
    /\ UNCHANGED << toggleVars, initArgs, cancelled >>

Tick == \E c \in Closures : TickOf(c)

\* the callback showMissionComplete handed to setTimeout runs: the class
\* and student ids are read from the inputs at that moment
SaveWith(classId, studentId, now) ==
    /\ pendingSaves > 0
    /\ pendingSaves' = pendingSaves - 1
    /\ saveAttempt(classId, studentId, now)
    /\ UNCHANGED << stateVars, timers, toggleVars, completions >>
    /\ Observe("save")
    /\ UNCHANGED << initArgs, cancelled >>

SaveFire ==
    \E classId \in ClassIds, studentId \in StudentIds, now \in Timestamps :
        SaveWith(classId, studentId, now)

\* the export listener, with the class id read from classIdInput
Export ==
    /\ \E classId \in ClassIds : exportClassCSV(classId)
    /\ UNCHANGED << stateVars, timers, toggleVars, completions, pendingSaves,
                    localStorage >>
    /\ Observe("export")
    /\ UNCHANGED << initArgs, cancelled >>

ToggleThinkMode ==
    /\ thinkModeToggle' = ~thinkModeToggle
    /\ UNCHANGED << stateVars, timers, preserveCaseToggle, completions, pendingSaves >>
    /\ Observe("toggle")
    /\ NoSyncCall
    /\ UNCHANGED << initArgs, cancelled >>

TogglePreserveCase ==
    /\ preserveCaseToggle' = ~preserveCaseToggle
    /\ UNCHANGED << stateVars, timers, thinkModeToggle, completions, pendingSaves >>
    /\ Observe("toggle")
    /\ NoSyncCall
    /\ UNCHANGED << initArgs, cancelled >>

Next ==
    \/ StartMission
    \/ Reset
    \/ StepForward
    \/ StepBack
    \/ Play
    \/ Pause
    \/ Reveal
    \/ SkipPredict
    \/ Tick
    \/ SaveFire
    \/ ToggleThinkMode
    \/ TogglePreserveCase

Spec == Init /\ [][Next]_vars


(***************************************************************************)
(* Stepping runs: a mission started once with drawn arguments, then        *)
(* stepped by hand, forward and back, with the toggles free.               *)
(***************************************************************************)
InitSteps ==
    /\ Constructed
    /\ NoStorage
    /\ Unsignalled
    /\ Unmarked
    /\ Unpaired
    /\ initArgs \in [text : StepTexts, key : StepKeys, called : {FALSE}]
    /\ script = [phase |-> "armed", steps |-> 0]
    /\ Unprobed

StartGiven ==
    /\ lastOp = "none"
    /\ init(initArgs.text, initArgs.key)
    /\ initArgs' = [initArgs EXCEPT !.called = TRUE]
    /\ Observe("init")
    /\ NoSyncCall
    /\ cancelled' = TRUE
    /\ UNCHANGED toggleVars

NextSteps ==
    \/ StartGiven
    \/ Reset
    \/ StepForward
    \/ StepBack
    \/ SaveFire
    \/ ToggleThinkMode
    \/ TogglePreserveCase

SpecSteps == InitSteps /\ [][NextSteps]_vars

(***************************************************************************)
(* Autoplay runs: one mission text, started and restarted, stepped forward *)
(* by hand and by autoplay, with think mode switched on and off.  The      *)
(* browser fires every live interval timer again and again, and runs every *)
(* pending timeout; the learner is under no obligation to act.             *)
(***************************************************************************)
InitPlay ==
    /\ Constructed
    /\ NoStorage
    /\ Unsignalled
    /\ Unmarked
    /\ Unpaired
    /\ initArgs = [text |-> << "K", "b", "!" >>, key |-> Num(3), called |-> FALSE]
    /\ script = [phase |-> "off", steps |-> 0]
    /\ Unprobed

NextPlay ==
    \/ StartGiven
    \/ Reset
    \/ StepForward
    \/ Play
    \/ Tick
    \/ SaveFire
    \/ ToggleThinkMode

SpecPlay ==
    /\ InitPlay /\ [][NextPlay]_vars
    /\ \A c \in Closures : WF_vars(TickOf(c))
    /\ WF_vars(SaveFire)

(***************************************************************************)
(* Recorded runs: missions stepped by hand with localStorage in reach, the *)
(* save callbacks running at any later moment, and exports.                *)
(***************************************************************************)
\* ciphertexts of the recorded runs: one letter; a double quote and a comma
LogTexts == { << "a" >>, << Q >> }

InitLog ==
    /\ Constructed
    /\ localStorage = [available |-> TRUE, items |-> NoItems]
    /\ signalled = [on |-> TRUE, runs |-> << >>]
    /\ Unmarked
    /\ Unpaired
    /\ ~thinkModeToggle
    /\ preserveCaseToggle
    /\ \E text \in LogTexts :
           initArgs = [text |-> text, key |-> Num(DEFAULT_KEY), called |-> FALSE]
    /\ script = [phase |-> "off", steps |-> 0]
    /\ Unprobed

SaveLogged ==
    \E classId \in ClassIds, now \in Timestamps : SaveWith(classId, "ann", now)

NextLog ==
    \/ StartGiven
    \/ Reset
    \/ StepForward
    \/ StepBack
    \/ SaveLogged
    \/ Export

SpecLog == InitLog /\ [][NextLog]_vars

(***************************************************************************)
(* Steps forward and back looked back at: every operation of the page, on  *)
(* a mission given at the start, with the data each step started from      *)
(* kept in undo.                                                           *)
(***************************************************************************)
\* the missions looked back at: the empty one, and one with an upper-case
\* letter, a lower-case letter and a special character
UndoTexts == { << >>, << "K", "b", "!" >> }

InitUndo ==
    /\ Constructed
    /\ NoStorage
    /\ Unsignalled
    /\ undo = [on |-> TRUE, last |-> NoStep]
    /\ Unpaired
    /\ initArgs \in [text : UndoTexts, key : {Num(DEFAULT_KEY)}, called : {FALSE}]
    /\ script = [phase |-> "off", steps |-> 0]
    /\ Unprobed

NextUndo ==
    \/ StartGiven
    \/ Reset
    \/ StepForward
    \/ StepBack
    \/ Play
    \/ Pause
    \/ Reveal
    \/ SkipPredict
    \/ Tick
    \/ SaveFire
    \/ ToggleThinkMode
    \/ TogglePreserveCase

SpecUndo == InitUndo /\ [][NextUndo]_vars

(***************************************************************************)
(* The think-mode cycle: with think mode on, a learner who starts the      *)
(* mission and then only plays, lets the timer tick and reveals or skips.  *)
(* The learner keeps going (weak fairness of each of the three moves) and  *)
(* every live timer keeps ticking.                                         *)
(***************************************************************************)
\* the missions of the cycle: non-empty texts
ThinkTexts == { << "a" >>, << "K", "b", "!" >>, KHOOR }

InitThink ==
    /\ Constructed
    /\ thinkModeToggle
    /\ NoStorage
    /\ Unsignalled
    /\ Unmarked
    /\ Unpaired
    /\ initArgs \in [text : ThinkTexts, key : InitKeys, called : {FALSE}]
    /\ script = [phase |-> "off", steps |-> 0]
    /\ Unprobed

\* the learner presses play at the start and after each reveal or skip
CyclePlay ==
    /\ lastOp \in {"init", "acknowledge"}
    /\ Play

\* the learner reveals or skips once the timer has ticked
CycleAcknowledge ==
    /\ lastOp = "tick"
    /\ (Reveal \/ SkipPredict)

NextThink ==
    \/ StartGiven
    \/ CyclePlay
    \/ Tick
    \/ CycleAcknowledge

SpecThink ==
    /\ InitThink /\ [][NextThink]_vars
    /\ WF_vars(StartGiven)
    /\ WF_vars(CyclePlay)
    /\ WF_vars(CycleAcknowledge)
    /\ \A c \in Closures : WF_vars(TickOf(c))

(***************************************************************************)
(* The two implementations side by side: case preservation on, think mode  *)
(* off, and every call of init, nextStep, prevStep, play and pause and     *)
(* every timer tick of the first page made on the second as well.          *)
(***************************************************************************)
\* a lower-case letter; an upper-case letter, a lower-case one and a
\* special character; the empty text
PairTexts == { << >>, << "a" >>, << "K", "b", "!" >> }

\* the keys of the range [0, 25]
PairKeys == {Num(n) : n \in 0..25}

InitPair ==
    /\ Constructed
    /\ ~thinkModeToggle
    /\ preserveCaseToggle
    /\ NoStorage
    /\ Unsignalled
    /\ Unmarked
    /\ part = [NoPart EXCEPT !.on = TRUE]
    /\ initArgs = NoArgs
    /\ script = [phase |-> "off", steps |-> 0]
    /\ Unprobed

StartPair == \E text \in PairTexts, k \in PairKeys : StartWith(text, k)

NextPair ==
    \/ StartPair
    \/ StepForward
    \/ StepBack
    \/ Play
    \/ Pause
    \/ Tick
    \/ SaveFire

SpecPair == InitPair /\ [][NextPair]_vars

(***************************************************************************)
(* Direct calls of CipherEngine.decryptChar.                               *)
(***************************************************************************)
InitCipher ==
    /\ Constructed
    /\ NoStorage
    /\ Unsignalled
    /\ Unmarked
    /\ Unpaired
    /\ initArgs = NoArgs
    /\ script = [phase |-> "off", steps |-> 0]
    /\ \E c \in Chars, k \in (0 - MaxKeyAbs)..MaxKeyAbs, p \in BOOLEAN :
           probe = [letter |-> c, key |-> k, preserveCase |-> p, called |-> FALSE,
                    result |-> decryptChar("a", 0, TRUE), back |-> NoBack]

Decrypt ==
    /\ ~probe.called
    /\ probe' = [probe EXCEPT !.called = TRUE,
                              !.result = decryptChar(probe.letter, probe.key,
                                                     probe.preserveCase)]
    /\ UNCHANGED << stateVars, timers, toggleVars, completions,
                    lastOp, pre, initArgs, cancelled, script,
                    pendingSaves, localStorage, signalled, sync, undo, part >>

\* the key that undoes a shift by k: (26 - k) mod 26
complementKey(k) == (ALPHABET_SIZE - k) % ALPHABET_SIZE

\* the character the first call returned, decoded again under the
\* complementary key
DecryptBack ==
    /\ probe.called
    /\ ~probe.back.called
    /\ probe' = [probe EXCEPT !.back =
                     [called |-> TRUE,
                      key |-> complementKey(probe.key),
                      result |-> decryptChar(probe.result.char,
                                             complementKey(probe.key),
                                             probe.preserveCase)]]
    /\ UNCHANGED << stateVars, timers, toggleVars, completions,
                    lastOp, pre, initArgs, cancelled, script,
                    pendingSaves, localStorage, signalled, sync, undo, part >>

NextCipher ==
    \/ Decrypt
    \/ DecryptBack

SpecCipher == InitCipher /\ [][NextCipher]_vars

(***************************************************************************)
(* Properties.                                                             *)
(***************************************************************************)
atEnd == currentIndex = Len(encryptedText) - 1

\* C1: in every reachable state, whatever sequence of init, nextStep,
\* prevStep, play, pause, reveal/skip and timer ticks led to it (steps back at
\* cursor -1 and steps forward at the last index included), the history holds
\* exactly currentIndex + 1 snapshots.
C1_HistoryLength == Len(history) = currentIndex + 1

\* a step forward was attempted at the last index of a run stepped through
C1_Witness ==
    /\ lastOp \in {"nextStep", "tick"}
    /\ pre.currentIndex = Len(encryptedText) - 1
    /\ Len(history) = 3

\* C2: between one init and the next, UIController.showMissionComplete is
\* called at most once.
C2_CompletionAtMostOnce == initArgs.called => completions <= 1

\* C3: the cursor stays within -1 .. len - 1, and a step forward (by hand or
\* by a timer tick) taken when the cursor is at the last index leaves the
\* cursor, the history and the accumulated text as they were.
C3_CursorBounded ==
    /\ [](currentIndex \in (0 - 1)..(Len(encryptedText) - 1))
    /\ [][(atEnd /\ lastOp' \in {"nextStep", "tick"}) => UNCHANGED dataVars]_vars

\* a step forward made at the last index of a non-empty text
C3_Witness ==
    /\ lastOp = "nextStep"
    /\ Len(encryptedText) > 0
    /\ pre.currentIndex = Len(encryptedText) - 1
    /\ currentIndex = pre.currentIndex

\* C4: at every moment at most one interval timer created by play is live.
C4_AtMostOneTimer == liveTimers <= 1

\* C5: once pause, prevStep or init has returned, isPlaying is false, and
\* until play is called again no timer tick moves the cursor.
C5_CancelStopsTicks ==
    /\ [](cancelled => ~isPlaying)
    /\ [][(cancelled /\ lastOp' = "tick") => currentIndex' = currentIndex]_vars

\* C6: init, from any state, yields the idle state of a new run: cursor -1,
\* no snapshot, empty accumulated text, not playing, not waiting for a
\* reveal, and the ciphertext is the argument.
C6_InitYieldsIdle ==
    lastOp = "init" =>
        /\ currentIndex = -1
        /\ history = << >>
        /\ accumulatedText = << >>
        /\ ~isPlaying
        /\ ~waitingForReveal
        /\ encryptedText = initArgs.text

\* init was called during autoplay, in the middle of a run, with a reveal
\* awaited
C6_Witness ==
    /\ lastOp = "init"
    /\ pre.isPlaying
    /\ pre.waitingForReveal
    /\ pre.currentIndex >= 0

\* C7: init stores min(25, max(0, k)) for every integer key argument k, so
\* every k in 0..25, 0 included, is stored as it is.
C7_KeyClamped ==
    (lastOp = "init" /\ ~initArgs.key.nan) =>
        key = Min(25, Max(0, initArgs.key.n))

\* C8: a run stepped forward until the cursor is at the last index and then
\* stepped back the same number of times is back at cursor -1 with no
\* snapshot and an empty accumulated text.
C8_RoundTrip ==
    (script.phase = "backward" /\ script.steps = 0) =>
        /\ currentIndex = -1
        /\ history = << >>
        /\ accumulatedText = << >>

\* the default mission text stepped to the end and all the way back
C8_Witness ==
    /\ script.phase = "backward"
    /\ script.steps = 0
    /\ encryptedText = KHOOR

\* The Caesar decode of one character as the claims state it: the letter of
\* the alphabet (index - key) mod 26 places on, with the mathematical
\* residue; a character outside the alphabet as it is.
Decoded(c, k) ==
    LET idx == indexOf(toLowerCase(c))
    IN  IF idx = -1 THEN c ELSE ALPHABET[((idx - k) % 26) + 1]

\* C9 as stated: once a run is stepped through, position i of the accumulated
\* text holds alphabet[(index(ciphertext[i]) - key) mod 26] for a letter and
\* ciphertext[i] for a non-letter; "khoor zruog" under key 3 gives
\* "hello world".
C9_DecodedLiteral ==
    atEnd =>
        /\ Len(accumulatedText) = Len(encryptedText)
        /\ \A i \in 1..Len(encryptedText) :
               accumulatedText[i] = Decoded(encryptedText[i], key)
        /\ (encryptedText = KHOOR /\ key = 3) => accumulatedText = HELLO

\* C9, amended: as above, except that an upper-case letter of the ciphertext
\* yields the decoded letter in upper case when case preservation is on at
\* the step that decodes it (and the lower-case letter of the alphabet when
\* it is off).
C9_Decoded ==
    /\ [](atEnd =>
            /\ Len(accumulatedText) = Len(encryptedText)
            /\ \A i \in 1..Len(encryptedText) :
                   \/ accumulatedText[i] = Decoded(encryptedText[i], key)
                   \/ /\ isUpperAZ(encryptedText[i])
                      /\ accumulatedText[i] = toUpperCase(Decoded(encryptedText[i], key))
            /\ (encryptedText = KHOOR /\ key = 3) => accumulatedText = HELLO)
    /\ [][currentIndex' = currentIndex + 1 =>
            LET c == encryptedText[currentIndex' + 1]
            IN  accumulatedText'[currentIndex' + 1] =
                    IF preserveCaseToggle /\ isUpperAZ(c)
                    THEN toUpperCase(Decoded(c, key))
                    ELSE Decoded(c, key)]_vars

\* a text with an upper-case letter stepped through with case preservation on
C9_Witness ==
    /\ atEnd
    /\ encryptedText = << "K", "b", "!" >>
    /\ key = 3
    /\ accumulatedText = << "H", "y", "!" >>

\* C10: for every letter index i and every integer key, decryptChar reports
\* rawCalculation = i - key and newIndex = ((rawCalculation % 26) + 26) % 26
\* under JavaScript's truncating remainder, and that newIndex lies in 0..25
\* and is the mathematical residue of i - key modulo 26.
C10_DoubleModulo ==
    (probe.called /\ ~probe.result.isSpecial) =>
        LET i == indexOf(toLowerCase(probe.letter))
            r == probe.result
        IN  /\ r.originalIndex = i
            /\ r.rawCalculation = i - probe.key
            /\ r.newIndex = JsRem(JsRem(r.rawCalculation, 26) + 26, 26)
            /\ r.newIndex \in 0..25
            /\ r.newIndex = (i - probe.key) % 26

\* a letter decoded with a key above 25, the raw shift below -26
C10_Witness ==
    /\ probe.called
    /\ ~probe.result.isSpecial
    /\ probe.key > 25
    /\ probe.result.rawCalculation < 0 - ALPHABET_SIZE

\* C11: for every key k in 0..25 and every letter of index i in 0..25,
\* decoding the letter with key k and then decoding the result with key
\* (26 - k) mod 26 returns the letter of index i: the second call reports
\* newIndex = i and returns the letter the first call was given, up to the
\* case the first call removed.
C11_ComplementRoundTrip ==
    (probe.back.called /\ probe.key \in 0..25 /\ ~probe.result.isSpecial) =>
        LET i == indexOf(toLowerCase(probe.letter))
            b == probe.back.result
        IN  /\ probe.back.key = (26 - probe.key) % 26
            /\ ~b.isSpecial
            /\ b.originalIndex = (i - probe.key) % 26
            /\ b.newIndex = i
            /\ toLowerCase(b.char) = ALPHABET[i + 1]
            /\ ((probe.preserveCase \/ ~isUpperAZ(probe.letter))
                    /\ probe.letter # KELVIN) => b.char = probe.letter

\* a letter decoded across the start of the alphabet and decoded back
C11_Witness ==
    /\ probe.back.called
    /\ probe.key \in 1..25
    /\ ~probe.result.isSpecial
    /\ probe.result.rawCalculation < 0
    /\ probe.back.result.newIndex = probe.result.originalIndex

\* C12: for every key, a character that is not one of the 26 letters after
\* case folding decodes to isSpecial = TRUE, the character itself,
\* originalIndex = -1, newIndex = -1 and rawCalculation = null; every
\* character that is one of the 26 letters decodes to isSpecial = FALSE.
C12_SpecialPassThrough ==
    probe.called =>
        LET r == probe.result
            isLetter == \E i \in 1..26 : toLowerCase(probe.letter) = ALPHABET[i]
        IN  IF isLetter
            THEN r.isSpecial = FALSE
            ELSE /\ r.isSpecial = TRUE
                 /\ r.char = probe.letter
                 /\ r.originalIndex = -1
                 /\ r.newIndex = -1
                 /\ r.rawCalculation = null

\* a character outside the alphabet decoded under a key that is not 0
C12_Witness ==
    /\ probe.called
    /\ probe.letter \in OtherChars
    /\ probe.key # 0
    /\ probe.result.isSpecial
    /\ probe.result.char = probe.letter

\* C13: a run initialized with key 0 and stepped through a ciphertext of
\* alphabet letters yields, at every position, the input character, so the
\* accumulated text of the finished run is the ciphertext.
C13_KeyZeroIdentity ==
    (/\ initArgs.called
     /\ initArgs.key = Num(0)
     /\ encryptedText = initArgs.text
     /\ \A i \in 1..Len(encryptedText) : indexOf(encryptedText[i]) # -1) =>
        /\ \A i \in 1..Len(accumulatedText) : accumulatedText[i] = encryptedText[i]
        /\ atEnd => accumulatedText = encryptedText

\* C14: with an empty ciphertext the first nextStep after init signals
\* completion at once, and leaves the cursor at -1, the history empty and
\* the accumulated text empty.
C14_EmptyCompletes ==
    [][(lastOp = "init" /\ encryptedText = << >> /\ lastOp' = "nextStep") =>
          /\ completions' = completions + 1
          /\ completions' = 1
          /\ currentIndex' = -1
          /\ history' = << >>
          /\ accumulatedText' = << >>]_vars

\* the first step forward of a run with an empty ciphertext was made
C14_Witness ==
    /\ lastOp = "nextStep"
    /\ encryptedText = << >>
    /\ initArgs.called
    /\ completions = 1
    /\ currentIndex = -1

\* C15: with think mode on and the cursor before the last index, a tick of
\* the autoplay that play started advances the cursor by exactly one and
\* pauses (isPlaying false, waitingForReveal true); while the reveal is
\* awaited no tick moves the cursor; reveal or skip clears the wait without
\* moving the cursor, and a new play then starts autoplay again, whose next
\* tick advances by exactly one more.  (Read with no reveal awaited at the
\* moment of the tick that advances.)
C15_ThinkModeAutoplay ==
    /\ [][(/\ thinkModeToggle /\ isPlaying /\ ~waitingForReveal
           /\ currentIndex < Len(encryptedText) - 1
           /\ lastOp' = "tick") =>
              /\ currentIndex' = currentIndex + 1
              /\ ~isPlaying'
              /\ waitingForReveal']_vars
    /\ [][(thinkModeToggle /\ waitingForReveal /\ lastOp' = "tick") =>
              currentIndex' = currentIndex]_vars
    /\ [][lastOp' = "acknowledge" =>
              (~waitingForReveal' /\ currentIndex' = currentIndex)]_vars
    /\ [][(/\ thinkModeToggle /\ ~waitingForReveal
           /\ currentIndex < Len(encryptedText) - 1
           /\ lastOp' = "play") => isPlaying']_vars

\* C16: a tick that finds autoplay on with the cursor at the last index turns
\* isPlaying off and clears the timer handle, so the two never hold together
\* across more than one tick; and autoplay started by play with think mode
\* off (no reveal awaited) reaches, with the timers firing and the learner
\* not stepping in, the last index with isPlaying off.
C16_AutoplayTerminates ==
    /\ [][(atEnd /\ isPlaying /\ lastOp' = "tick") =>
              (~isPlaying' /\ timer' = 0)]_vars
    /\ (lastOp = "play" /\ isPlaying /\ ~thinkModeToggle /\ ~waitingForReveal)
           ~> ((atEnd /\ ~isPlaying) \/ lastOp \notin {"play", "tick"})

\* C17: the attempt a save callback appends describes the run whose
\* completion scheduled it: the ciphertext and the key of that run, a final
\* text as long as the ciphertext and one snapshot per character, whatever
\* the learner did between the signal and the callback.
C17_RecordDescribesRun ==
    [][(lastOp' = "save" /\ sync'.outcome = "saved") =>
          LET log == JSONparse(localStorage'.items[storageKey(sync'.classId)])
              r == log[Len(log)]
              run == Head(signalled.runs)
          IN  /\ r.encrypted = run.text
              /\ r.key = run.key
              /\ Len(r.finalDecrypted) = Len(r.encrypted)
              /\ Len(r.history) = Len(r.encrypted)]_vars

\* C18: a save for class c that reaches the storage appends exactly one
\* entry at the tail of the log kept under "spyclass_" followed by c, or by
\* "default" when c is empty: the entries the log had stay, in order, and
\* the log of every other key is as it was.
C18_AppendOnly ==
    [][(lastOp' = "save" /\ sync'.outcome = "saved") =>
          LET c == sync'.classId
              k == IF c = "" THEN "spyclass_default" ELSE "spyclass_" \o c
              before == IF k \in DOMAIN localStorage.items
                        THEN localStorage.items[k].json ELSE << >>
              after == localStorage'.items[k].json
          IN  /\ DOMAIN localStorage'.items = DOMAIN localStorage.items \cup {k}
              /\ Len(after) = Len(before) + 1
              /\ SubSeq(after, 1, Len(before)) = before
              /\ \A x \in DOMAIN localStorage.items \ {k} :
                     localStorage'.items[x] = localStorage.items[x]]_vars

\* a save has just appended to a log that held an entry, with the log of
\* another class in the storage
C18_Witness ==
    /\ lastOp = "save"
    /\ sync.outcome = "saved"
    /\ Len(storedAttempts(storageKey(sync.classId))) = 2
    /\ \E x \in DOMAIN localStorage.items :
           x # storageKey(sync.classId) /\ Len(localStorage.items[x].json) = 1

\* C19: an export for a class whose log is empty or absent ends in the
\* "no data" alert and downloads nothing; an export for a class with
\* attempts downloads a CSV text and shows no alert.
C19_ExportNoData ==
    lastOp = "export" =>
        LET c == sync.classId
            k == IF c = "" THEN "spyclass_default" ELSE "spyclass_" \o c
            empty == k \notin DOMAIN localStorage.items
                         \/ localStorage.items[k].json = << >>
        IN  IF empty
            THEN sync.outcome = "alert" /\ downloaded = << >>
            ELSE sync.outcome = "csv" /\ downloaded # << >>

\* an export for a class without attempts was made while another class
\* has some
C19_Witness ==
    /\ lastOp = "export"
    /\ sync.outcome = "alert"
    /\ storageKey(sync.classId) \notin DOMAIN localStorage.items
    /\ totalAttempts > 0

\* the fields a CSV reader finds in line: one more than the commas that
\* stand outside quotes (an even number of quotes before them)
fieldCount(line) ==
    1 + Cardinality({i \in 1..Len(line) :
                        /\ line[i] = ","
                        /\ Cardinality({j \in 1..(i - 1) : line[j] = Q}) % 2 = 0})

\* C20: in every row of an exported CSV the ciphertext field and the final
\* text field are the value between two double quotes with every double
\* quote of the value doubled, and the row has as many fields as the
\* header whatever the ciphertext holds.
C20_QuoteEscaped ==
    (lastOp = "export" /\ sync.outcome = "csv") =>
        \A i \in 1..Len(sync.data) :
            LET r == sync.data[i]
                row == csvRows(sync.data)[i + 1]
            IN  /\ row[3] = << Q >> \o replaceQuotes(r.encrypted) \o << Q >>
                /\ row[5] = << Q >> \o replaceQuotes(r.finalDecrypted) \o << Q >>
                /\ fieldCount(join(row, ",")) = Len(csvHeader)

\* the value between two double quotes, its own quotes doubled or not
quotedForms(value) ==
    { << Q >> \o value \o << Q >>, << Q >> \o replaceQuotes(value) \o << Q >> }

\* C21: an exported CSV is the header row
\* Timestamp,StudentID,EncryptedText,Key,DecryptedResult followed by one
\* row per attempt of the class log, in the order of the log, each row
\* made of the five fields timestamp, student id, ciphertext, key and final
\* text.
C21_CsvShape ==
    (lastOp = "export" /\ sync.outcome = "csv") =>
        LET rows == csvRows(sync.data)
        IN  /\ sync.data = storedAttempts(storageKey(sync.classId))
            /\ Len(rows) = Len(sync.data) + 1
            /\ rows[1] = << << "Timestamp" >>, << "StudentID" >>, << "EncryptedText" >>,
                            << "Key" >>, << "DecryptedResult" >> >>
            /\ \A i \in 1..Len(sync.data) :
                   LET r == sync.data[i]
                       row == rows[i + 1]
                   IN  /\ Len(row) = 5
                       /\ row[1] = << r.timestamp >>
                       /\ row[2] = << r.studentId >>
                       /\ row[3] \in quotedForms(r.encrypted)
                       /\ row[4] = << ToString(r.key) >>
                       /\ row[5] \in quotedForms(r.finalDecrypted)

\* C22: with the storage out of reach the save callback raises no error
\* and leaves the engine alone: cursor, history, accumulated text,
\* isPlaying and waitingForReveal are as before, so is every log, and the
\* learner is shown exactly one warning.
C22_SaveFailureWarned ==
    [][(lastOp' = "save" /\ ~localStorage.available) =>
          /\ sync'.call = "saveAttempt"
          /\ sync'.outcome # "threw"
          /\ UNCHANGED << dataVars, isPlaying, waitingForReveal >>
          /\ UNCHANGED localStorage
          /\ sync'.alerts = 1]_vars

\* C23: a prevStep that comes right after a nextStep which started with the
\* cursor before the last index puts cursor, history and accumulated text
\* back to what they were before that nextStep.
C23_BackUndoesForward ==
    [][(/\ lastOp = "nextStep"
        /\ undo.last.op = "nextStep"
        /\ undo.last.currentIndex < Len(encryptedText) - 1
        /\ lastOp' = "prevStep") =>
           /\ currentIndex' = undo.last.currentIndex
           /\ history' = undo.last.history
           /\ accumulatedText' = undo.last.accumulatedText]_vars

\* a nextStep that decoded the second character has just been undone
C23_Witness ==
    /\ lastOp = "prevStep"
    /\ undo.last.op = "prevStep"
    /\ undo.last.after = "nextStep"
    /\ undo.last.currentIndex = 1
    /\ pre.currentIndex = 1
    /\ currentIndex = 0
    /\ Len(history) = 1

\* C24: a nextStep that comes after a prevStep which started with the
\* cursor at 0 or beyond, with nothing but toggles of the two checkboxes
\* in between, puts cursor, history and accumulated text back to what they
\* were before that prevStep: the snapshot of a position is the same each
\* time the position is stepped into.
C24_ReplaySame ==
    [][(/\ undo.last.op = "prevStep"
        /\ undo.last.currentIndex >= 0
        /\ lastOp \in {"prevStep", "toggle"}
        /\ lastOp' = "nextStep") =>
           /\ currentIndex' = undo.last.currentIndex
           /\ history' = undo.last.history
           /\ accumulatedText' = undo.last.accumulatedText]_vars

\* C25: in every reachable state the accumulated text is that of the tail
\* snapshot of the history, or empty when the history is empty; it is
\* cursor + 1 characters long; and the snapshot at index i has iteration i,
\* the character of the ciphertext at i, the key of the run, and for its
\* accumulated text that of the snapshot before it followed by its own
\* decoded character.
C25_SnapshotsCoherent ==
    /\ accumulatedText =
           IF history = << >> THEN << >> ELSE history[Len(history)].accumulated
    /\ Len(accumulatedText) = currentIndex + 1
    /\ \A n \in 1..Len(history) :
           /\ history[n].iteration = n - 1
           /\ n <= Len(encryptedText)
           /\ history[n].inputChar = encryptedText[n]
           /\ history[n].key = key
           /\ history[n].accumulated =
                  Append(IF n = 1 THEN << >> ELSE history[n - 1].accumulated,
                         history[n].result.char)

\* a run stepped through a letter, a second letter and a special character
C25_Witness ==
    /\ Len(history) = 3
    /\ history[3].result.isSpecial
    /\ ~history[1].result.isSpecial
    /\ currentIndex = 2

\* C26: within a run the history changes only by a step forward (of a
\* listener or of a tick) that appends one snapshot at the tail, or by a
\* prevStep that removes the tail snapshot, the snapshots below the tail
\* staying as they are; every other step of the page, ticks that do not
\* step included, leaves history, cursor and accumulated text unchanged.
C26_StackDiscipline ==
    /\ [][lastOp' # "init" =>
             \/ UNCHANGED dataVars
             \/ /\ lastOp' \in {"nextStep", "tick"}
                /\ Len(history') = Len(history) + 1
                /\ SubSeq(history', 1, Len(history)) = history
             \/ /\ lastOp' = "prevStep"
                /\ history # << >>
                /\ history' = SubSeq(history, 1, Len(history) - 1)]_vars
    /\ [][lastOp' \in {"play", "pause", "acknowledge", "toggle", "save"} =>
             UNCHANGED dataVars]_vars

\* a reveal was made with two snapshots in the history
C26_Witness ==
    /\ lastOp = "acknowledge"
    /\ Len(history) = 2
    /\ currentIndex = 1

\* C27: prevStep leaves isPlaying false, also with the cursor at -1; with
\* the cursor at -1 it leaves cursor, history, accumulated text and
\* waitingForReveal as they are; with the cursor at 0 or beyond it moves
\* the cursor back by one and sets waitingForReveal to false.
C27_BackStopsAutoplay ==
    [][lastOp' = "prevStep" =>
          /\ ~isPlaying'
          /\ currentIndex < 0 => UNCHANGED << dataVars, waitingForReveal >>
          /\ currentIndex >= 0 =>
                 (currentIndex' = currentIndex - 1 /\ ~waitingForReveal')]_vars

\* prevStep was called with the cursor at -1 while autoplay was on
C27_Witness ==
    /\ lastOp = "prevStep"
    /\ pre.currentIndex = -1
    /\ pre.isPlaying
    /\ ~isPlaying
    /\ currentIndex = -1

\* C28: revealPrediction and skipPrediction set waitingForReveal to false
\* and leave cursor, history, accumulated text, isPlaying and the timer as
\* they are, whether a reveal was awaited or not.
C28_AcknowledgeOnlyClears ==
    [][lastOp' = "acknowledge" =>
          /\ ~waitingForReveal'
          /\ UNCHANGED << dataVars, isPlaying, timer, timers, encryptedText, key >>]_vars

\* a reveal or skip was made while autoplay was on and a reveal awaited
C28_Witness ==
    /\ lastOp = "acknowledge"
    /\ pre.waitingForReveal
    /\ pre.isPlaying
    /\ isPlaying
    /\ timer = 1
    /\ ~waitingForReveal

\* C29: while waitingForReveal is true a tick of a live timer does not move
\* the cursor: it leaves isPlaying false and cursor, history and
\* accumulated text as they are.
C29_TickWaitsForReveal ==
    [][(waitingForReveal /\ lastOp' = "tick") =>
          (~isPlaying' /\ UNCHANGED dataVars)]_vars

\* C30 as stated: play called with the cursor at the last index or beyond
\* (the empty text included) leaves isPlaying false, creates no timer and
\* leaves cursor, history and accumulated text unchanged.
C30_PlayAtEndStaysOff ==
    [][(currentIndex >= Len(encryptedText) - 1 /\ lastOp' = "play") =>
          /\ ~isPlaying'
          /\ UNCHANGED << timer, timers >>
          /\ UNCHANGED dataVars]_vars

\* C30 amended: play called with the cursor at the last index or beyond
\* changes nothing: isPlaying keeps its value (true when the tick that
\* ends autoplay has not come yet), no timer is created, and cursor,
\* history and accumulated text are unchanged.
C30_PlayAtEndNoOp ==
    [][(currentIndex >= Len(encryptedText) - 1 /\ lastOp' = "play") =>
          UNCHANGED << stateVars, timers >>]_vars

\* play was called at the last index with autoplay still on
C30_Witness ==
    /\ lastOp = "play"
    /\ currentIndex = Len(encryptedText) - 1
    /\ currentIndex >= 0
    /\ pre.currentIndex = currentIndex
    /\ pre.isPlaying
    /\ isPlaying

\* C31: while waitingForReveal is true no operation moves the cursor
\* forward, neither a tick nor a nextStep of the learner; the cursor
\* advances again only once a reveal, a skip or a prevStep has set the flag
\* to false.
C31_GateNotBypassed ==
    [][waitingForReveal => currentIndex' <= currentIndex]_vars

\* C32: with think mode on and a non-empty ciphertext, a learner who only
\* repeats play, a tick, reveal or skip gets the cursor to the last index
\* and gets the completion signal, the timers ticking fairly.
C32_ThinkCycleCompletes ==
    /\ (lastOp = "init") ~> (currentIndex = Len(encryptedText) - 1)
    /\ (lastOp = "init") ~> (completions > 0)

\* C33: with case preservation on and think mode off, the two
\* implementations run through the same initialize (key in [0, 25]),
\* stepForward, stepBackward, play, pause and ticks keep the same key,
\* cursor, history, accumulated output, isPlaying and number of completion
\* signals after every step.
C33_SameObservables ==
    /\ part.key = key
    /\ part.currentIndex = currentIndex
    /\ part.history = history
    /\ part.accumulatedText = accumulatedText
    /\ part.isPlaying = isPlaying
    /\ part.completions = completions

====
